---- MODULE Spec2Model ----
(***************************************************************************)
(* Self-adaptive differential evolution (jDE) engine of NiaPy,             *)
(* NiaPy/algorithms/modified/jde.py: classes SolutionjDE and               *)
(* SelfAdaptiveDifferentialEvolutionAlgorithm.                             *)
(*                                                                         *)
(* Reals are fixed-point integers in units of 1/Scale: 0.5 is 5, 1.0 is    *)
(* 10.  A call of rnd.random() is a choice from Random, a sample of        *)
(* [0.0, 1.0), and from RandomParam where the value becomes a candidate's  *)
(* F or Cr.  float('inf') is Inf, above every fitness of the model.        *)
(* The locals of one iteration of generationStep (newSolution, r, jrand)   *)
(* are dead once the iteration has appended to newPopulation; the model    *)
(* resets them there.  The vector the constructor draws for the offspring  *)
(* is overwritten in every dimension by the crossover loop before it is    *)
(* read; the model leaves it empty until that loop.                        *)
(*                                                                         *)
(* __init__ assigns D, Np, nFES, Lower, Upper and bestSolution only.  The  *)
(* attributes Tao, F and Cr that generationStep reads are not assigned by  *)
(* any code of the class; attrs is the engine's remaining instance         *)
(* dictionary: the subset of {Tao, F, Cr} that the caller assigned on the  *)
(* object before run().  Reading a name outside DOMAIN attrs raises        *)
(* AttributeError.                                                         *)
(***************************************************************************)
EXTENDS Integers, Sequences, FiniteSets, TLC

\* ---------------------------------------------------------------- bounds
MaxNP == 4
MaxD == 1
MaxFES == 8
MaxGens == 2
MaxWork == 12
MaxCalls == 2
MaxRuns == 2

\* ------------------------------------------------------------- constants
Scale == 10
Inf == 1000000
DefaultF == 5
DefaultCr == 9

\* values of rnd.random() the model draws; the ones drawn for F and Cr
Random == {0, 3}
RandomParam == {2}

\* construction inputs
NPs == 2 .. MaxNP
Ds == 1 .. MaxD
\* vector components a run with budget b evaluates at most: no more than
\* b + np evaluations of d components
Work(np, d, b) == d * (b + np)

\* budgets just below and at a whole number of populations
Budgets(np, d) ==
    {b \in 1 .. MaxFES : /\ \E g \in 1 .. MaxGens : b \in {g * np - 1, g * np}
                         /\ Work(np, d, b) <= MaxWork}
BoundsPairs == {<<0 - Scale, Scale>>, <<Scale, 0 - Scale>>, <<0, 0>>}
Functions == {"sphere", "const"}
AttrNames == {"Tao", "F", "Cr"}
\* values the caller may assign to self.Tao, self.F and self.Cr
CallerAttrs ==
    {[Tao |-> t, F |-> f, Cr |-> c] : t \in {0, Scale}, f \in {Scale}, c \in {3}}

VARIABLES
    D, Np, nFES, Lower, Upper,  \* engine configuration (self.D ...)
    attrs,                      \* engine attributes assigned by the caller
    FuncEval,                   \* SolutionjDE.FuncEval (class attribute)
    Population,                 \* self.Population
    bestSolution,               \* self.bestSolution
    pc,                         \* position inside run()
    k,                          \* evalPopulation: next candidate, 1-based
    i,                          \* generationStep: parent index, 0-based
    newSolution,                \* generationStep: offspring being built
    r,                          \* generationStep: donor triple
    jrand,                      \* generationStep: forced dimension
    mutated,                    \* generationStep: dimensions of newSolution
                                \*                 that took the mutant value
    newPopulation,              \* generationStep: population being built
    FEs,                        \* run(): evaluation counter
    result,                     \* run(): returned value
    evalCount,                  \* history: number of calls of evaluate()
    evalMin,                    \* history: least fitness any evaluation returned
    evalArg,                    \* history: first vector evaluated to evalMin
    gens,                       \* history: completed generational transitions
    function,                   \* the objective the engine was constructed with
    engineB,                    \* the objective a second engine was constructed
                                \* with, "none" while there is no second engine
    calls,                      \* history: calls of run() on the engine
    useAlgorithms, useBenchmarks, nRuns,   \* Runner configuration
    export,                     \* Runner.run: the export argument
    results,                    \* Runner: self.results
    exported,                   \* Runner: extension of the file written
    rpc,                        \* Runner.run: position
    ai, bi, ri                  \* Runner.run: positions of the three loops

engines == <<function, engineB, calls>>

runner == <<useAlgorithms, useBenchmarks, nRuns, export, results, exported,
            rpc, ai, bi, ri>>

vars == <<D, Np, nFES, Lower, Upper, attrs, FuncEval, Population,
          bestSolution, pc, k, i, newSolution, r, jrand, newPopulation, FEs,
          result, evalCount, evalMin, evalArg, gens, mutated, engines, runner>>

config == <<D, Np, nFES, Lower, Upper, attrs, FuncEval>>

history == <<evalCount, evalMin, evalArg>>

\* ------------------------------------------------------------ SolutionjDE
RECURSIVE SumSquares(_, _)
SumSquares(d, x) == IF d = 0 THEN 0 ELSE x[d] * x[d] + SumSquares(d - 1, x)

\* the objective bound at construction, called as FuncEval(D, Solution)
Objective(f, d, x) ==
    IF f = "sphere" THEN SumSquares(d, x)
    ELSE IF f = "inf" THEN Inf
    ELSE 7

\* generateSolution: LB + (UB - LB) * rnd.random() per dimension
GenerateSolution(d, LB, UB) ==
    [1 .. d -> {LB + ((UB - LB) * u) \div Scale : u \in Random}]

\* SolutionjDE.__init__
NewSolutionjDE(d, LB, UB) ==
    {[Solution |-> s, F |-> DefaultF, Cr |-> DefaultCr, Fitness |-> Inf] :
        s \in GenerateSolution(d, LB, UB)}

\* evaluate
Evaluate(f, d, c) == [c EXCEPT !.Fitness = Objective(f, d, c.Solution)]

\* repair: two successive tests per dimension
RepairValue(x, LB, UB) ==
    LET a == IF x > UB THEN UB ELSE x
    IN  IF a < LB THEN LB ELSE a

Repair(c, d, LB, UB) ==
    [c EXCEPT !.Solution = [j \in 1 .. d |-> RepairValue(c.Solution[j], LB, UB)]]

\* ----------------------------------------------------------------- engine
\* variants of the best tracking: ties replace the best; the worse one wins
UpdateBestTies(best, c) == IF c.Fitness <= best.Fitness THEN c ELSE best
UpdateBestMax(best, c) == IF c.Fitness > best.Fitness THEN c ELSE best

\* best tracking, evalPopulation and generationStep
UpdateBest(best, c) == IF c.Fitness < best.Fitness THEN c ELSE best

\* variant of the selection: the offspring wins ties
SelectTies(child, parent) == IF child.Fitness <= parent.Fitness THEN child ELSE parent

\* selection between offspring and parent
Select(child, parent) == IF child.Fitness < parent.Fitness THEN child ELSE parent

\* variants of the counter's start: the initial evaluations are not counted,
\* or counted twice
InitialFEsZero(np) == 0
InitialFEsTwice(np) == np + np

\* FEs = self.Np
InitialFEs(np) == np

\* while FEs <= self.nFES
LoopCond(fes, budget) == fes <= budget

\* rnd.sample(range(0, Np), 3): ordered triples of distinct indices
Sample(np) ==
    {t \in [1 .. 3 -> 0 .. (np - 1)] : t[1] # t[2] /\ t[1] # t[3] /\ t[2] # t[3]}

\* variant of the rejection test: only the first donor is compared
RejectedFirst(idx, t) == t[1] = idx

\* while i in r
Rejected(idx, t) == \E m \in 1 .. 3 : t[m] = idx

\* jrand = int(rnd.random() * self.Np)
JRand(u, np) == (u * np) \div Scale

NoSolution == [Solution |-> <<>>, F |-> DefaultF, Cr |-> DefaultCr, Fitness |-> Inf]

\* the evaluation history after candidate c has been evaluated
Record(c) ==
    /\ evalCount' = evalCount + 1
    /\ evalMin' = IF c.Fitness < evalMin THEN c.Fitness ELSE evalMin
    /\ evalArg' = IF c.Fitness < evalMin THEN c.Solution ELSE evalArg

\* Runner.__init__, and the state of a Runner that is not run
RunnerIdle ==
    /\ useAlgorithms = <<>>
    /\ useBenchmarks = <<>>
    /\ nRuns = 0
    /\ export = "dataframe"
    /\ results = <<>>
    /\ exported = "none"
    /\ rpc = "idle"
    /\ ai = 1 /\ bi = 1 /\ ri = 0

\* the engine constructed with an objective of fs
EngineSetup(fs) ==
    /\ D \in Ds
    /\ Np \in NPs
    /\ nFES \in Budgets(Np, D)
    /\ \E b \in BoundsPairs : Lower = b[1] /\ Upper = b[2]
    /\ \E S \in SUBSET AttrNames, a \in CallerAttrs : attrs = [n \in S |-> a[n]]
    /\ function \in fs
    /\ FuncEval = function
    /\ engineB = "none"
    /\ calls = 1
    /\ Population = <<>>
    /\ bestSolution \in NewSolutionjDE(D, Lower, Upper)
    /\ pc = "run"
    /\ k = 1
    /\ i = 0
    /\ newSolution = NoSolution
    /\ r = <<>>
    /\ jrand = 0
    /\ newPopulation = <<>>
    /\ FEs = 0
    /\ result = Inf
    /\ evalCount = 0
    /\ evalMin = Inf
    /\ evalArg = <<>>
    /\ gens = 0
    /\ mutated = {}

Init == EngineSetup(Functions) /\ RunnerIdle

\* run(): self.initPopulation()
InitPopulation ==
    /\ pc = "run"
    /\ \E P \in [1 .. Np -> NewSolutionjDE(D, Lower, Upper)] :
           Population' = Population \o P
    /\ pc' = "evalPopulation"
    /\ k' = 1
    /\ UNCHANGED <<config, engines, runner, history, bestSolution, i, newSolution, r, jrand,
                   newPopulation, FEs, result, gens, mutated>>

\* run(): self.evalPopulation(), one iteration; after the last one FEs = self.Np
EvalPopulation ==
    /\ pc = "evalPopulation"
    /\ k <= Len(Population)
    /\ LET p == Evaluate(FuncEval, D, Population[k])
       IN  /\ Population' = [Population EXCEPT ![k] = p]
           /\ bestSolution' = UpdateBest(bestSolution, p)
           /\ Record(p)
    /\ k' = k + 1
    /\ IF k = Len(Population)
       THEN pc' = "while" /\ FEs' = InitialFEs(Np)
       ELSE pc' = pc /\ FEs' = FEs
    /\ UNCHANGED <<config, engines, runner, i, newSolution, r, jrand, newPopulation, result,
                   gens, mutated>>

\* run(): the while test; entering generationStep, or return
WhileTest ==
    /\ pc = "while"
    /\ IF LoopCond(FEs, nFES)
       THEN /\ pc' = "adapt"
            /\ i' = 0
            /\ newPopulation' = <<>>
            /\ result' = result
       ELSE /\ pc' = "done"
            /\ result' = bestSolution.Fitness
            /\ UNCHANGED <<i, newPopulation>>
    /\ UNCHANGED <<config, engines, runner, history, Population, bestSolution, k, newSolution,
                   r, jrand, FEs, gens, mutated>>

\* variant of the generation read: indices already decided are read from the
\* population being built (replacement in place)
InPlaceGeneration(P, built) ==
    [n \in 1 .. Len(P) |-> IF n <= Len(built) THEN built[n] ELSE P[n]]

\* the generation that generationStep reads parents and donors from: its
\* parameter Population
ParentGeneration(P, built) == P

Parents == ParentGeneration(Population, newPopulation)

\* generationStep: allocate the offspring, self-adapt F and Cr
Adapt ==
    /\ pc = "adapt"
    /\ IF "Tao" \notin DOMAIN attrs
       THEN /\ pc' = "AttributeError"
            /\ UNCHANGED newSolution
       ELSE /\ pc' = "sample"
            /\ \E uF, uCr \in Random, f, cr \in RandomParam :
                   newSolution' =
                       [NoSolution EXCEPT !.F = IF uF < attrs["Tao"] THEN f ELSE Parents[i + 1].F,
                                          !.Cr = IF uCr < attrs["Tao"] THEN cr ELSE Parents[i + 1].Cr]
    /\ UNCHANGED <<config, engines, runner, history, Population, bestSolution, k, i, r, jrand,
                   newPopulation, FEs, result, gens, mutated>>

\* generationStep: one draw of the donor triple; jrand once it is accepted
SampleDonors ==
    /\ pc = "sample"
    /\ IF Np < 3
       THEN pc' = "ValueError" /\ UNCHANGED <<r, jrand>>
       ELSE \E t \in Sample(Np) :
                /\ r' = t
                /\ IF Rejected(i, t)
                   THEN pc' = "sample" /\ UNCHANGED jrand
                   ELSE pc' = "crossover" /\ \E u \in Random : jrand' = JRand(u, Np)
    /\ UNCHANGED <<config, engines, runner, history, Population, bestSolution, k, i, newSolution,
                   newPopulation, FEs, result, gens, mutated>>

\* dimensions that take the mutant value: a draw below Cr, or j == jrand
MutantDims(u) == {j \in 1 .. D : u[j] < attrs["Cr"] \/ j - 1 = jrand}

\* Population[r[0]].Solution[j] + F * (Population[r[1]].Solution[j] - Population[r[2]].Solution[j])
Mutant(j) ==
    Parents[r[1] + 1].Solution[j]
      + (attrs["F"] * (Parents[r[2] + 1].Solution[j] - Parents[r[3] + 1].Solution[j])) \div Scale

\* generationStep: crossover, repair and evaluation of the offspring
Crossover ==
    /\ pc = "crossover"
    /\ IF "Cr" \notin DOMAIN attrs
       THEN /\ pc' = "AttributeError"
            /\ UNCHANGED <<history, newSolution, mutated>>
       ELSE \E u \in [1 .. D -> Random] :
              LET M == MutantDims(u)
              IN  IF M # {} /\ "F" \notin DOMAIN attrs
                  THEN /\ pc' = "AttributeError"
                       /\ UNCHANGED <<history, newSolution, mutated>>
                  ELSE LET built == [newSolution EXCEPT !.Solution =
                                       [j \in 1 .. D |-> IF j \in M THEN Mutant(j)
                                                         ELSE Parents[i + 1].Solution[j]]]
                           child == Evaluate(FuncEval, D, Repair(built, D, Lower, Upper))
                       IN  /\ newSolution' = child
                           /\ Record(child)
                           /\ mutated' = M
                           /\ pc' = "select"
    /\ UNCHANGED <<config, engines, runner, Population, bestSolution, k, i, r, jrand,
                   newPopulation, FEs, result, gens>>

\* generationStep: best tracking and selection; after the last index
\* run() takes the new population and adds Np to FEs
Selection ==
    /\ pc = "select"
    /\ bestSolution' = UpdateBest(bestSolution, newSolution)
    /\ newPopulation' = Append(newPopulation, Select(newSolution, Parents[i + 1]))
    /\ i' = i + 1
    /\ IF i + 1 < Np
       THEN /\ pc' = "adapt"
            /\ UNCHANGED <<Population, FEs, gens>>
       ELSE /\ Population' = newPopulation'
            /\ FEs' = FEs + Np
            /\ gens' = gens + 1
            /\ pc' = "while"
    /\ newSolution' = NoSolution
    /\ r' = <<>>
    /\ jrand' = 0
    /\ mutated' = {}
    /\ UNCHANGED <<config, engines, runner, history, k, result>>

Next ==
    \/ InitPopulation
    \/ EvalPopulation
    \/ WhileTest
    \/ Adapt
    \/ SampleDonors
    \/ Crossover
    \/ Selection

Spec == Init /\ [][Next]_vars

\* the donor draw that leaves the rejection loop of lines 88-90
AcceptedSample == SampleDonors /\ pc' = "crossover"

\* run() under a scheduler that lets the sequential program take its next
\* step, and random donor draws that do not reject for ever
FairSpec == Init /\ [][Next]_vars /\ WF_vars(Next) /\ SF_vars(AcceptedSample)

\* the engine constructed with an objective that returns float('inf')
InitFailing == EngineSetup({"inf"}) /\ RunnerIdle

SpecFailing == InitFailing /\ [][Next]_vars

\* a further call of run() on the engine after run() returned
RunAgain ==
    /\ pc = "done"
    /\ calls < MaxCalls
    /\ calls' = calls + 1
    /\ pc' = "run"
    /\ UNCHANGED <<config, function, engineB, runner, history, Population,
                   bestSolution, k, i, newSolution, r, jrand, mutated,
                   newPopulation, FEs, result, gens>>

NextRerun ==
    \/ Next
    \/ RunAgain

\* an engine with valid bounds and a constant objective, run up to MaxCalls
\* times
InitRerun == EngineSetup({"const"}) /\ RunnerIdle /\ Lower < Upper

SpecRerun == InitRerun /\ [][NextRerun]_vars

\* construction of a second engine with another objective, at any moment:
\* line 59 assigns the class attribute SolutionjDE.FuncEval
ConstructEngineB ==
    /\ engineB = "none"
    /\ \E g \in Functions \ {function} :
           /\ engineB' = g
           /\ FuncEval' = g
    /\ UNCHANGED <<D, Np, nFES, Lower, Upper, attrs, function, calls, runner,
                   history, Population, bestSolution, pc, k, i, newSolution,
                   r, jrand, mutated, newPopulation, FEs, result, gens>>

NextEngines ==
    \/ Next
    \/ ConstructEngineB

\* an engine with valid bounds, Tao = 0 when the caller assigns it
InitEngines ==
    /\ Init
    /\ Lower < Upper
    /\ "Tao" \in DOMAIN attrs => attrs["Tao"] = 0

SpecEngines == InitEngines /\ [][NextEngines]_vars

\* ---- Runner (runner.py) ----

jde == <<config, history, engines, Population, bestSolution, pc, k, i,
         newSolution, r, jrand, mutated, newPopulation, FEs, result, gens>>

\* names of the algorithms and benchmarks a Runner is given
AlgorithmLists == {<<"DE">>, <<"DE", "PSO">>}

BenchmarkLists == {<<"Sphere">>, <<"Sphere", "Ackley">>}

\* what algorithm.run(task) may return
RunValues == {0, 1}

\* the export types the docstring of Runner.run names
DocumentedExports == {"dataframe", "json", "xls", "xlsx"}

\* the values passed as export
ExportArgs == DocumentedExports \cup {"xsl", "csv"}

\* the dispatch at the end of Runner.run: the export method called for e,
\* "none" when the call raises TypeError
ExportMethod(e) ==
    IF e = "dataframe" THEN "dataframe"
    ELSE IF e = "json" THEN "json"
    ELSE IF e = "xsl" THEN "xls"
    ELSE IF e = "xlsx" THEN "xlsx"
    ELSE "none"

\* Runner(nRuns, useAlgorithms, useBenchmarks) and the call of run(export),
\* beside an engine that is constructed and not run
InitRunner ==
    /\ EngineSetup({"sphere"})
    /\ D = 1 /\ Np = 2 /\ nFES = 1 /\ Lower < Upper
    /\ DOMAIN attrs = {}
    /\ bestSolution.Solution = <<Lower>>
    /\ useAlgorithms \in AlgorithmLists
    /\ useBenchmarks \in BenchmarkLists
    /\ nRuns \in 1 .. MaxRuns
    /\ export \in ExportArgs
    /\ results = <<>>
    /\ exported = "none"
    /\ rpc = "run"
    /\ ai = 1 /\ bi = 1 /\ ri = 0

\* Runner.run: one iteration of the innermost loop, with the assignments of
\* the enclosing loops that precede it when it is their first one
RunnerIterate ==
    /\ rpc = "run"
    /\ LET alg == useAlgorithms[ai]
           bench == useBenchmarks[bi]
           res0 == IF bi = 1 /\ ri = 0 THEN (alg :> <<>>) @@ results
                   ELSE results
           res1 == IF ri = 0
                   THEN (alg :> ((bench :> <<>>) @@ res0[alg])) @@ res0
                   ELSE res0
       IN  \E v \in RunValues :
               results' = (alg :> ((bench :> Append(res1[alg][bench], v))
                                    @@ res1[alg])) @@ res1
    /\ IF ri + 1 < nRuns
       THEN ri' = ri + 1 /\ UNCHANGED <<ai, bi, rpc>>
       ELSE IF bi < Len(useBenchmarks)
       THEN ri' = 0 /\ bi' = bi + 1 /\ UNCHANGED <<ai, rpc>>
       ELSE IF ai < Len(useAlgorithms)
       THEN ri' = 0 /\ bi' = 1 /\ ai' = ai + 1 /\ UNCHANGED rpc
       ELSE rpc' = "export" /\ UNCHANGED <<ai, bi, ri>>
    /\ UNCHANGED <<jde, useAlgorithms, useBenchmarks, nRuns, export, exported>>

\* Runner.run: the export dispatch and the return
RunnerExport ==
    /\ rpc = "export"
    /\ exported' = ExportMethod(export)
    /\ rpc' = IF exported' = "none" THEN "TypeError" ELSE "returned"
    /\ UNCHANGED <<jde, useAlgorithms, useBenchmarks, nRuns, export, results,
                   ai, bi, ri>>

NextRunner ==
    \/ RunnerIterate
    \/ RunnerExport

SpecRunner == InitRunner /\ [][NextRunner]_vars

\* ------------------------------------------------------------- properties
Returned == pc = "done"

GenerationPcs == {"adapt", "sample", "crossover", "select"}

RECURSIVE MinFitness(_, _)
MinFitness(P, n) ==
    IF n = 0 THEN Inf
    ELSE LET m == MinFitness(P, n - 1)
         IN  IF P[n].Fitness < m THEN P[n].Fitness ELSE m

\* C1: for NP >= 4 and nFES > 0, when run() returns the evaluations performed
\* (NP for the initial population plus NP per generational transition) are at
\* least nFES.
C1_BudgetLowerBound ==
    (Returned /\ Np >= 4) =>
        /\ evalCount = Np + gens * Np
        /\ evalCount >= nFES

C1_Witness == Returned /\ Np >= 4 /\ gens = 2 /\ evalCount = 3 * Np

\* C2: for NP >= 4 and nFES > 0, when run() returns the evaluations performed
\* exceed nFES by at most NP - 1.
C2_OvershootBelowNP ==
    (Returned /\ Np >= 4) => evalCount - nFES <= Np - 1

\* C3: selection monotonicity.  In every iteration of generationStep the
\* candidate appended at index i has a fitness <= the parent's, and it is the
\* offspring only when the offspring's fitness is strictly lower, else the
\* unchanged parent; the population a transition returns is nowhere worse than
\* the one it was passed.
C3_SelectionMonotone ==
    [][pc = "select" =>
         LET parent == Population[i + 1]
             got == newPopulation'[i + 1]
         IN  /\ Len(newPopulation') = i + 1
             /\ got.Fitness <= parent.Fitness
             /\ IF newSolution.Fitness < parent.Fitness
                THEN got = newSolution
                ELSE got = parent
             /\ pc' = "while" =>
                    \A n \in 1 .. Np : Population'[n].Fitness <= Population[n].Fitness]_vars

C3_Witness ==
    /\ pc = "adapt"
    /\ i >= 2
    /\ newPopulation[1].Fitness < Population[1].Fitness
    /\ newPopulation[2] = Population[2]

\* C4: best-ever monotonicity.  The recorded best fitness never increases from
\* one state to the next; the best-ever candidate changes exactly at an
\* evaluation whose fitness is strictly lower than the recorded best, and then
\* becomes the evaluated candidate.
C4_BestMonotone ==
    [][/\ bestSolution'.Fitness <= bestSolution.Fitness
       /\ pc = "evalPopulation" =>
              IF Population'[k].Fitness < bestSolution.Fitness
              THEN bestSolution' = Population'[k]
              ELSE bestSolution' = bestSolution
       /\ pc = "select" =>
              IF newSolution.Fitness < bestSolution.Fitness
              THEN bestSolution' = newSolution
              ELSE bestSolution' = bestSolution
       /\ pc \notin {"evalPopulation", "select"} => bestSolution' = bestSolution]_vars

C4_Witness ==
    /\ pc = "adapt"
    /\ i >= 1
    /\ bestSolution = newPopulation[i]
    /\ bestSolution.Fitness < MinFitness(Population, Np)

\* C5: the value run() returns is the minimum fitness over every evaluation of
\* the run, lost offspring included, and the best-ever candidate's vector is
\* the vector that was evaluated to that fitness.
C5_ReturnsMinimum ==
    Returned =>
        /\ result = evalMin
        /\ bestSolution.Fitness = evalMin
        /\ bestSolution.Solution = evalArg
        /\ Objective(FuncEval, D, bestSolution.Solution) = result

C5_Witness ==
    /\ Returned
    /\ gens >= 1
    /\ result = evalMin
    /\ result < Inf
    /\ bestSolution.F \in RandomParam

\* C6: crossover guarantee.  For every offspring jrand is an index in 0..D-1,
\* so the dimension jrand of the offspring takes the mutant value whatever the
\* Cr draws are.
C6_ForcedDimension ==
    pc = "select" => (jrand \in 0 .. (D - 1) /\ (jrand + 1) \in mutated)

\* C7: distinct donor sampling.  The donor indices finally used for the
\* offspring at parent index i lie in 0..NP-1, are pairwise distinct and none
\* equals i.
C7_DistinctDonors ==
    pc \in {"crossover", "select"} =>
        /\ Len(r) = 3
        /\ \A m \in 1 .. 3 : r[m] \in 0 .. (Np - 1) /\ r[m] # i
        /\ r[1] # r[2] /\ r[1] # r[3] /\ r[2] # r[3]

C7_Witness == pc = "select" /\ i = Np - 1 /\ Len(r) = 3 /\ mutated # {}

\* C8: an engine with NP < 4 is rejected at construction and never reaches a
\* generational step.
C8_SmallPopulationRejected == Np < 4 => pc \notin GenerationPcs

\* C9: an engine with Lower >= Upper is rejected at construction; no candidate
\* is generated from invalid bounds.
C9_InvalidBoundsRejected == Lower >= Upper => Population = <<>>

\* C10: zero-generation case.  When nFES < NP, run() initializes the
\* population, evaluates each of the NP candidates once, performs no
\* generational transition, raises no error and returns the minimum of the NP
\* initial fitnesses.
C10_ZeroGenerations ==
    nFES < Np =>
        /\ pc \in {"run", "evalPopulation", "while", "done"}
        /\ gens = 0
        /\ pc \in {"while", "done"} =>
               /\ Len(Population) = Np
               /\ evalCount = Np
               /\ \A n \in 1 .. Np :
                      Population[n].Fitness = Objective(FuncEval, D, Population[n].Solution)
        /\ Returned => result = MinFitness(Population, Np)

C10_Witness == Returned /\ nFES < Np /\ evalCount = Np /\ result < Inf

\* the value of the constant objective
ConstantValue == Objective("const", 0, <<>>)

\* C11: with an objective that returns the same constant for every input, the
\* best-ever fitness is that constant from the first evaluation on and the
\* best-ever candidate never changes afterwards; in every generational
\* transition every parent survives, so the population stays the initial one.
C11_ConstantObjective ==
    [][FuncEval = "const" =>
         /\ evalCount' >= 1 => bestSolution'.Fitness = ConstantValue
         /\ evalCount >= 1 => bestSolution' = bestSolution
         /\ pc = "select" => newPopulation'[i + 1] = Population[i + 1]
         /\ pc \in GenerationPcs => Population' = Population]_vars

C11_Witness ==
    /\ FuncEval = "const"
    /\ Returned
    /\ gens = 2
    /\ bestSolution = Population[1]
    /\ result = ConstantValue

InBounds(c) == \A j \in 1 .. D : Lower <= c.Solution[j] /\ c.Solution[j] <= Upper

\* C12: every candidate of the population and the best-ever candidate have
\* all D components within [Lower, Upper] in every reachable state, and
\* repairing them again changes nothing.
C12_WithinBounds ==
    /\ InBounds(bestSolution)
    /\ Repair(bestSolution, D, Lower, Upper) = bestSolution
    /\ \A n \in 1 .. Len(Population) :
           /\ InBounds(Population[n])
           /\ Repair(Population[n], D, Lower, Upper) = Population[n]

\* C15: the crossover test and the mutant value use the offspring's own F and
\* Cr: every dimension of the offspring that took the mutant value holds
\* Population[r0][j] + newSolution.F * (Population[r1][j] - Population[r2][j]),
\* clamped to the bounds.
C15_OffspringParameters ==
    pc = "select" =>
        \A j \in mutated :
            LET v == Scale * Population[r[1] + 1].Solution[j]
                       + newSolution.F * (Population[r[2] + 1].Solution[j]
                                            - Population[r[3] + 1].Solution[j])
            IN  Scale * newSolution.Solution[j] = RepairValue(v, Scale * Lower, Scale * Upper)

\* C16: Tao, F and Cr of the engine are assigned by construction, so a run
\* with NP >= 4 and nFES >= NP reads no unassigned attribute.
C16_AttributesAssigned ==
    (Np >= 4 /\ nFES >= Np) => pc # "AttributeError"

\* C18: frozen parent generation.  While a transition builds the next
\* population, the parent's F and Cr, the parent's and the donors' vectors and
\* the parent's fitness are read from the population the transition was
\* passed, never from the population being built, and that population is
\* left unchanged until the transition returns.
C18_FrozenParents ==
    [][/\ (pc \in GenerationPcs /\ pc' # "while") => Population' = Population
       /\ (pc = "adapt" /\ pc' = "sample") =>
              /\ newSolution'.F \in RandomParam \cup {Population[i + 1].F}
              /\ newSolution'.Cr \in RandomParam \cup {Population[i + 1].Cr}
       /\ (pc = "crossover" /\ pc' = "select") =>
              \A j \in 1 .. D :
                  newSolution'.Solution[j] =
                      RepairValue(IF j \in mutated'
                                  THEN Population[r[1] + 1].Solution[j]
                                         + (attrs["F"] * (Population[r[2] + 1].Solution[j]
                                                            - Population[r[3] + 1].Solution[j])) \div Scale
                                  ELSE Population[i + 1].Solution[j],
                                  Lower, Upper)
       /\ pc = "select" =>
              newPopulation'[i + 1] =
                  IF newSolution.Fitness < Population[i + 1].Fitness
                  THEN newSolution ELSE Population[i + 1]]_vars

\* an offspring is built from a donor whose index was already replaced in the
\* population being built
C18_Witness ==
    /\ pc = "select"
    /\ \E m \in 1 .. 3 :
           /\ r[m] < i
           /\ newPopulation[r[m] + 1].Solution # Population[r[m] + 1].Solution

\* C13: an evaluation that returns an infinite value is fatal.  A run never
\* returns a best fitness after such an evaluation, and an infinite fitness
\* never enters the selection comparison or the best-tracking comparison.
C13_EvaluationFailureFatal ==
    /\ Returned => /\ result < Inf
                   /\ \A n \in 1 .. Len(Population) : Population[n].Fitness < Inf
    /\ pc = "select" => newSolution.Fitness < Inf

\* C14: Runner.run(export) runs every (algorithm, benchmark) pair nRuns times;
\* for each documented export type it calls the matching export and returns
\* the results, and it raises TypeError only for an export type that is not
\* documented.
C14_ExportDispatch ==
    /\ rpc = "TypeError" => export \notin DocumentedExports
    /\ rpc = "returned" =>
           /\ exported = export
           /\ \A a \in 1 .. Len(useAlgorithms), b \in 1 .. Len(useBenchmarks) :
                  Len(results[useAlgorithms[a]][useBenchmarks[b]]) = nRuns

\* C17: termination.  For every NP >= 4 and finite budget run() eventually
\* returns, under fair donor draws; the evaluation counter grows by NP with
\* every generation.
C17_Terminates ==
    /\ (Np >= 4) ~> Returned
    /\ [][(pc = "select" /\ pc' = "while") => FEs' = FEs + Np]_vars

\* C19: population size.  In every state after initialization the population
\* of the engine holds exactly NP candidates, also after generational
\* transitions and when run() is invoked again on the same engine.
C19_PopulationSize ==
    (pc # "run" \/ calls > 1) => Len(Population) = Np

\* C20: objective binding.  Every evaluation made by the engine uses the
\* objective the engine was constructed with, whenever a second engine with
\* another objective is constructed.
C20_ObjectiveBinding ==
    /\ \A n \in 1 .. Len(Population) :
           Population[n].Fitness \in
               {Inf, Objective(function, D, Population[n].Solution)}
    /\ pc = "select" =>
           newSolution.Fitness = Objective(function, D, newSolution.Solution)

====
